---- MODULE Spec2Model ----
(***************************************************************************)
(* HubChannel (src/utils/hub-channel.js): the session / permission client  *)
(* of a room channel.  The model keeps the object's fields, the requests   *)
(* pushed to the channel that still await an acknowledgment, the pending   *)
(* refresh timers and the client clock.  Every handler is one action; the  *)
(* effects a handler has on its collaborators (messages pushed, events     *)
(* dispatched, adapter calls, the value returned) are recorded in the      *)
(* step-output variables op, ret, pushed, events and naf, and in their     *)
(* order in trace; these describe the LAST step only.                      *)
(*                                                                         *)
(* Times are milliseconds since the epoch.  They do not fit TLC's 32-bit   *)
(* integers, so a time (and a difference of times) is kept as the pair     *)
(* [day, ms] with value day * MS_PER_DAY + ms and 0 <= ms < MS_PER_DAY.    *)
(***************************************************************************)
EXTENDS Integers, Sequences, FiniteSets, Bags, TLC

VARIABLES
  store,              \* the persistent client store handed to the constructor
  channel,            \* this.channel: "none" until setPhoenixChannel
  signedIn,           \* this._signedIn
  permissions,        \* this._permissions (a function from keys to values)
  blockedSessionIds,  \* this._blockedSessionIds
  pending,            \* pushes with receive hooks that are not acknowledged yet
  timers,             \* setTimeout callbacks not run yet
  now,                \* the client clock (new Date())
  op,                 \* last step: <<handler, its argument or the value it returns>>
  ret,                \* last step: the kind of value returned / how the promise settled
  pushed,             \* last step: messages pushed to the channel, in order
  events,             \* last step: events dispatched, in order
  naf,                \* last step: calls on NAF.connection, in order
  trace               \* last step: all of these effects in the order they happen,
                      \* each with the fields of the object at that moment

vars == <<store, channel, signedIn, permissions, blockedSessionIds, pending,
          timers, now, op, ret, pushed, events, naf, trace>>

(***************************************************************************)
(* Bounds of the model.                                                    *)
(***************************************************************************)
MaxInFlight == 2   \* pending requests plus pending timers
MaxTicks == 1      \* clock ticks in a behaviour

(***************************************************************************)
(* Wide millisecond arithmetic.                                            *)
(***************************************************************************)
MS_PER_DAY == 86400000

Norm(d, m) == [day |-> d + (m \div MS_PER_DAY), ms |-> m % MS_PER_DAY]

Zero == [day |-> 0, ms |-> 0]

AddMs(t, k) == Norm(t.day, t.ms + k)

Plus(a, b) == Norm(a.day + b.day, a.ms + b.ms)

Minus(a, b) == Norm(a.day - b.day, a.ms - b.ms)

Less(a, b) == a.day < b.day \/ (a.day = b.day /\ a.ms < b.ms)

LessEq(a, b) == a = b \/ Less(a, b)

\* seconds since the epoch * 1000
SecondsToMs(s) == Norm(s \div (MS_PER_DAY \div 1000), (s % (MS_PER_DAY \div 1000)) * 1000)

(***************************************************************************)
(* Date: the calendar fields of a time in the client's local time (the     *)
(* times of the model are local; the zone offset is constant).             *)
(***************************************************************************)
\* the civil date of a day number (days since 1970-01-01), month from 0
CivilFromDays(z0) ==
  LET z == z0 + 719468
      era == z \div 146097
      doe == z - era * 146097
      yoe == (doe - (doe \div 1460) + (doe \div 36524) - (doe \div 146096)) \div 365
      doy == doe - (365 * yoe + (yoe \div 4) - (yoe \div 100))
      mp == (5 * doy + 2) \div 153
      d == doy - ((153 * mp + 2) \div 5) + 1
      m == IF mp < 10 THEN mp + 3 ELSE mp - 9
  IN  [year |-> yoe + era * 400 + (IF m <= 2 THEN 1 ELSE 0), month |-> m - 1, date |-> d]

GetFullYear(t) == CivilFromDays(t.day).year

GetMonth(t) == CivilFromDays(t.day).month

GetDate(t) == CivilFromDays(t.day).date

isSameMonth(da, db) == GetFullYear(da) = GetFullYear(db) /\ GetMonth(da) = GetMonth(db)

\* the day of the month alone
isSameDayByDate(da, db) == GetDate(da) = GetDate(db)

isSameDay(da, db) == isSameMonth(da, db) /\ GetDate(da) = GetDate(db)

\* 1000 * 60 * 60 * 24 * 30, wide
MS_PER_MONTH == Norm(30, 0)

(***************************************************************************)
(* Inputs.                                                                 *)
(***************************************************************************)
NoValue == "undefined"

Sessions == {"s1", "s2"}

HubId == "hub1"

\* The clock starts half a minute before a midnight and advances in ticks.
TickMs == 30 * 1000
StartNow == [day |-> 20000, ms |-> MS_PER_DAY - TickMs]
StartSeconds == StartNow.day * (MS_PER_DAY \div 1000) + (StartNow.ms \div 1000)
LastNow == AddMs(StartNow, MaxTicks * TickMs)

\* Signed permission tokens the server may answer with: who the session is
\* to the room and the declared expiry in seconds.
Tokens ==
  { [grant |-> "owner", exp |-> StartSeconds + 60],
    [grant |-> "editor", exp |-> StartSeconds + 90],
    [grant |-> "member", exp |-> StartSeconds + 60] }

\* jwtDecode: the payload of a token, not verified.
JwtDecode(token) ==
  CASE token.grant = "owner" ->
         [update_hub |-> TRUE, close_hub |-> TRUE, exp |-> token.exp]
    [] token.grant = "editor" ->
         [update_hub |-> TRUE, close_hub |-> FALSE, exp |-> token.exp]
    [] OTHER -> [exp |-> token.exp]

EmptyPermissions == [k \in {} |-> TRUE]

\* this._permissions.<name> read as a condition: absent keys are undefined.
Truthy(perms, name) == name \in DOMAIN perms /\ perms[name] = TRUE

\* The stores a client may be constructed with.
Stores ==
  { [credentialsToken |-> NoValue, lastEnteredAt |-> <<>>,
     creatorAssignmentTokens |-> <<[hubId |-> "hub2", creatorAssignmentToken |-> "cat2"]>>],
    [credentialsToken |-> "cred", lastEnteredAt |-> <<AddMs(StartNow, -TickMs)>>,
     creatorAssignmentTokens |-> <<[hubId |-> "hub2", creatorAssignmentToken |-> "cat2"],
                                   [hubId |-> "hub1", creatorAssignmentToken |-> "cat1"]>>] }

(***************************************************************************)
(* Queries.                                                                *)
(***************************************************************************)
HUB_CREATOR_PERMISSIONS == {"update_hub", "close_hub", "mute_users", "kick_users"}

\* can(permission)
Can(permission) == Truthy(permissions, permission)

\* the first stored entry, of whatever hub
GetCreatorAssignmentTokenAnyHub ==
  LET tokens == store.creatorAssignmentTokens
  IN  IF tokens = <<>> THEN NoValue ELSE tokens[1].creatorAssignmentToken

\* _getCreatorAssignmentToken(): the first entry of this hub, if any
GetCreatorAssignmentToken ==
  LET tokens == store.creatorAssignmentTokens
      found == {i \in 1..Len(tokens) : tokens[i].hubId = HubId}
  IN  IF found = {} THEN NoValue
      ELSE tokens[CHOOSE i \in found : \A j \in found : i <= j].creatorAssignmentToken

\* canOrWillIfCreator(permission)
CanOrWillIfCreator(permission) ==
  IF GetCreatorAssignmentToken # NoValue /\ permission \in HUB_CREATOR_PERMISSIONS
    THEN TRUE
    ELSE Can(permission)

\* isHidden(sessionId)
IsHidden(sessionId) == sessionId \in blockedSessionIds

\* the windows taken as new from the full day and the full thirty days on
EntryTimingFlagsInclusive(t, storedLastEnteredAt) ==
  IF storedLastEnteredAt = <<>>
    THEN [isNewDaily |-> TRUE, isNewMonthly |-> TRUE,
          isNewDayWindow |-> TRUE, isNewMonthWindow |-> TRUE]
    ELSE LET lastEntered == storedLastEnteredAt[1]
             msSinceLastEntered == Minus(t, lastEntered)
         IN  [isNewDaily |-> ~isSameDay(t, lastEntered),
              isNewMonthly |-> ~isSameMonth(t, lastEntered),
              isNewDayWindow |-> LessEq(Norm(0, MS_PER_DAY), msSinceLastEntered),
              isNewMonthWindow |-> LessEq(MS_PER_MONTH, msSinceLastEntered)]

\* getEntryTimingFlags() at time t; the stored last entry time is <<>> when
\* there is none and <<time>> otherwise
EntryTimingFlags(t, storedLastEnteredAt) ==
  IF storedLastEnteredAt = <<>>
    THEN [isNewDaily |-> TRUE, isNewMonthly |-> TRUE,
          isNewDayWindow |-> TRUE, isNewMonthWindow |-> TRUE]
    ELSE LET lastEntered == storedLastEnteredAt[1]
             msSinceLastEntered == Minus(t, lastEntered)
         IN  [isNewDaily |-> ~isSameDay(t, lastEntered),
              isNewMonthly |-> ~isSameMonth(t, lastEntered),
              isNewDayWindow |-> Less(Norm(0, MS_PER_DAY), msSinceLastEntered),
              isNewMonthWindow |-> Less(MS_PER_MONTH, msSinceLastEntered)]

(***************************************************************************)
(* Step outputs, requests and timers.                                      *)
(***************************************************************************)
Msg(name, arg) == <<name, arg>>

Out4(o, r, p, n) ==
  /\ op' = o
  /\ ret' = r
  /\ pushed' = p
  /\ naf' = n

\* one effect of a handler: a message pushed, an event dispatched, a call on
\* NAF.connection or the settling of the promise, with this._permissions and
\* this._signedIn as they are when it happens
Effect(kind, name, perms, si) ==
  [kind |-> kind, name |-> name, permissions |-> perms, signedIn |-> si]

Settled(r, perms, si) ==
  IF r \in {"resolved", "rejected"} THEN <<Effect("settle", r, perms, si)>> ELSE <<>>

\* a handler whose effects are of one kind, or an event and then the settling
\* of the promise, and which has written its fields before them
Out(o, r, p, e, n) ==
  /\ Out4(o, r, p, n)
  /\ events' = e
  /\ trace' = [i \in 1..Len(p) |-> Effect("push", p[i][1], permissions', signedIn')]
               \o [i \in 1..Len(e) |-> Effect("event", e[i], permissions', signedIn')]
               \o [i \in 1..Len(n) |-> Effect("naf", n[i][1], permissions', signedIn')]
               \o Settled(r, permissions', signedIn')

Quiet(o, r) == Out(o, r, <<>>, <<>>, <<>>)

InFlight == BagCardinality(pending) + BagCardinality(timers)

Request(name, origin, arg) == [name |-> name, origin |-> origin, arg |-> arg]

\* the delay to the expiry itself
NextRefreshAtExpiry(exp, t) == Minus(SecondsToMs(exp), t)

\* new Date(exp * 1000 - 60 * 1000) - new Date()
NextRefresh(exp, t) == Minus(AddMs(SecondsToMs(exp), -(60 * 1000)), t)

\* setTimeout(callback, delay) called at time t; exp names the token
SetTimeout(delay, t, exp) == [delay |-> delay, setAt |-> t, exp |-> exp]

\* the earliest time a timer's callback may run
Due(timer) ==
  IF Less(timer.delay, Zero) THEN timer.setAt ELSE Plus(timer.setAt, timer.delay)

(***************************************************************************)
(* constructor                                                             *)
(***************************************************************************)
Init ==
  /\ store \in Stores
  /\ channel = "none"
  /\ signedIn = (store.credentialsToken # NoValue)
  /\ permissions = EmptyPermissions
  /\ blockedSessionIds = {}
  /\ pending = EmptyBag
  /\ timers = EmptyBag
  /\ now = StartNow
  /\ op = <<"constructor", NoValue>>
  /\ ret = NoValue
  /\ pushed = <<>>
  /\ events = <<>>
  /\ naf = <<>>
  /\ trace = <<>>

core == <<store, channel, signedIn, permissions, blockedSessionIds, pending, timers, now>>

\* a handler that only pushes one message and returns nothing; without a
\* channel the push throws a TypeError
PushOnly(name, arg, msg) ==
  /\ UNCHANGED core
  /\ IF channel = "none"
       THEN Quiet(<<name, arg>>, "throws")
       ELSE Out(<<name, arg>>, NoValue, <<Msg(msg, arg)>>, <<>>, <<>>)

\* a handler that pushes a request and returns a promise settled by the
\* acknowledgment; without a channel the executor throws and the promise is
\* rejected at once
PushRequest(name, arg, msg, origin) ==
  /\ InFlight < MaxInFlight
  /\ UNCHANGED <<store, channel, signedIn, permissions, blockedSessionIds, timers, now>>
  /\ IF channel = "none"
       THEN pending' = pending /\ Quiet(<<name, arg>>, "rejected")
       ELSE /\ pending' = pending (+) SetToBag({Request(msg, origin, arg)})
            /\ Out(<<name, arg>>, "promise", <<Msg(msg, arg)>>, <<>>, <<>>)

\* the acknowledged request leaves the pending ones
Acked(req) ==
  /\ pending' = pending (-) SetToBag({req})
  /\ UNCHANGED <<store, channel, blockedSessionIds, now>>

SetPhoenixChannel ==
  /\ channel' = "chan"
  /\ UNCHANGED <<store, signedIn, permissions, blockedSessionIds, pending, timers, now>>
  /\ Quiet(<<"setPhoenixChannel", NoValue>>, NoValue)

\* the channel is replaced by the migrated one; requests pushed on the old
\* one stay as they are
MigrateToSocket ==
  /\ channel = "chan"
  /\ UNCHANGED core
  /\ Quiet(<<"migrateToSocket", NoValue>>, "promise")

\* the decoded token laid over the permissions held
SetPermissionsFromTokenMerged(token, after) ==
  /\ permissions' = [k \in DOMAIN JwtDecode(token) \cup DOMAIN permissions |->
                       IF k \in DOMAIN JwtDecode(token) THEN JwtDecode(token)[k]
                                                        ELSE permissions[k]]
  /\ events' = <<"permissions_updated">> \o after
  /\ timers' = timers (+) SetToBag(
                 {SetTimeout(NextRefresh(JwtDecode(token).exp, now), now, JwtDecode(token).exp)})

\* no permissions_updated event
SetPermissionsFromTokenSilent(token, after) ==
  /\ permissions' = JwtDecode(token)
  /\ events' = after
  /\ timers' = timers (+) SetToBag(
                 {SetTimeout(NextRefresh(JwtDecode(token).exp, now), now, JwtDecode(token).exp)})

\* sets the refresh timer in place of the ones pending
SetPermissionsFromTokenOneTimer(token, after) ==
  /\ permissions' = JwtDecode(token)
  /\ events' = <<"permissions_updated">> \o after
  /\ timers' = SetToBag(
                 {SetTimeout(NextRefresh(JwtDecode(token).exp, now), now, JwtDecode(token).exp)})

\* setPermissionsFromToken(token), then the events in after
SetPermissionsFromToken(token, after) ==
  /\ permissions' = JwtDecode(token)
  /\ events' = <<"permissions_updated">> \o after
  /\ timers' = timers (+) SetToBag(
                 {SetTimeout(NextRefresh(JwtDecode(token).exp, now), now, JwtDecode(token).exp)})

\* the refresh timer's callback
TimerFires ==
  \E timer \in BagToSet(timers) :
    /\ LessEq(Due(timer), now)
    /\ timers' = timers (-) SetToBag({timer})
    /\ pending' = pending (+) SetToBag({Request("refresh_perms_token", "timer", NoValue)})
    /\ UNCHANGED <<store, channel, signedIn, permissions, blockedSessionIds, now>>
    /\ Out(<<"timer", timer>>, NoValue, <<Msg("refresh_perms_token", NoValue)>>, <<>>, <<>>)

SendEntryEvent ==
  /\ UNCHANGED core
  /\ IF channel = "none"
       THEN Quiet(<<"sendEntryEvent", NoValue>>, NoValue)
       ELSE Out(<<"sendEntryEvent", NoValue>>, NoValue,
                <<Msg("events:entered", EntryTimingFlags(now, store.lastEnteredAt))>>,
                <<>>, <<>>)

GetEntryTimingFlags ==
  /\ UNCHANGED core
  /\ Quiet(<<"getEntryTimingFlags", EntryTimingFlags(now, store.lastEnteredAt)>>, "flags")

SendObjectSpawnedEvent ==
  /\ UNCHANGED core
  /\ IF channel = "none"
       THEN Quiet(<<"sendObjectSpawnedEvent", NoValue>>, NoValue)
       ELSE Out(<<"sendObjectSpawnedEvent", NoValue>>, NoValue,
                <<Msg("events:object_spawned", NoValue)>>, <<>>, <<>>)

SendProfileUpdate == PushOnly("sendProfileUpdate", NoValue, "events:profile_updated")

UpdateScene ==
  /\ UNCHANGED core
  /\ IF ~Truthy(permissions, "update_hub")
       THEN Quiet(<<"updateScene", NoValue>>, "unauthorized")
       ELSE IF channel = "none"
         THEN Quiet(<<"updateScene", NoValue>>, "throws")
         ELSE Out(<<"updateScene", NoValue>>, NoValue, <<Msg("update_scene", NoValue)>>, <<>>, <<>>)

\* a rename that the stored creator-assignment token lets through
RenameIfCreator ==
  /\ UNCHANGED core
  /\ IF ~CanOrWillIfCreator("update_hub")
       THEN Quiet(<<"rename", NoValue>>, "unauthorized")
       ELSE IF channel = "none"
         THEN Quiet(<<"rename", NoValue>>, "throws")
         ELSE Out(<<"rename", NoValue>>, NoValue, <<Msg("update_hub", NoValue)>>, <<>>, <<>>)

Rename ==
  /\ UNCHANGED core
  /\ IF ~Truthy(permissions, "update_hub")
       THEN Quiet(<<"rename", NoValue>>, "unauthorized")
       ELSE IF channel = "none"
         THEN Quiet(<<"rename", NoValue>>, "throws")
         ELSE Out(<<"rename", NoValue>>, NoValue, <<Msg("update_hub", NoValue)>>, <<>>, <<>>)

\* gated by update_hub, as rename is
CloseHubChecksUpdateHub ==
  /\ UNCHANGED core
  /\ IF ~Truthy(permissions, "update_hub")
       THEN Quiet(<<"closeHub", NoValue>>, "unauthorized")
       ELSE IF channel = "none"
         THEN Quiet(<<"closeHub", NoValue>>, "throws")
         ELSE Out(<<"closeHub", NoValue>>, NoValue, <<Msg("close_hub", NoValue)>>, <<>>, <<>>)

CloseHub ==
  /\ UNCHANGED core
  /\ IF ~Truthy(permissions, "close_hub")
       THEN Quiet(<<"closeHub", NoValue>>, "unauthorized")
       ELSE IF channel = "none"
         THEN Quiet(<<"closeHub", NoValue>>, "throws")
         ELSE Out(<<"closeHub", NoValue>>, NoValue, <<Msg("close_hub", NoValue)>>, <<>>, <<>>)

Subscribe == PushOnly("subscribe", NoValue, "subscribe")

AllowNAFTraffic ==
  \E allow \in BOOLEAN :
    PushOnly("allowNAFTraffic", allow, IF allow THEN "unblock_naf" ELSE "block_naf")

Unsubscribe == PushRequest("unsubscribe", NoValue, "unsubscribe", "call")

\* an empty body returns before the push
SendMessage ==
  \E body \in {"", "hello"} :
    IF body = ""
      THEN UNCHANGED core /\ Quiet(<<"sendMessage", body>>, NoValue)
      ELSE PushOnly("sendMessage", body, "message")

SignIn == PushRequest("signIn", GetCreatorAssignmentToken, "sign_in", "call")

\* a sign-in whose "ok" hook sets _signedIn before it sets the permissions
SignInOkSignedInFirst ==
  \E req \in BagToSet(pending) : \E token \in Tokens :
    /\ req.name = "sign_in"
    /\ Acked(req)
    /\ signedIn' = TRUE
    /\ SetPermissionsFromToken(token, <<>>)
    /\ Out4(<<"sign_in ok", token>>, "resolved", <<>>, <<>>)
    /\ trace' = [i \in 1..Len(events') |-> Effect("event", events'[i], permissions', signedIn')]
                 \o <<Effect("settle", "resolved", permissions', signedIn')>>

SignInOk ==
  \E req \in BagToSet(pending) : \E token \in Tokens :
    /\ req.name = "sign_in"
    /\ Acked(req)
    /\ SetPermissionsFromToken(token, <<>>)
    /\ signedIn' = TRUE
    /\ Out4(<<"sign_in ok", token>>, "resolved", <<>>, <<>>)
    /\ trace' = [i \in 1..Len(events') |-> Effect("event", events'[i], permissions', signedIn)]
                 \o <<Effect("settle", "resolved", permissions', signedIn')>>

\* an error acknowledgment after which the client pushes sign_in again
SignInErrorRetries ==
  \E req \in BagToSet(pending) : \E reason \in {"invalid_token", "join_denied"} :
    /\ req.name = "sign_in"
    /\ UNCHANGED core
    /\ Out(<<"sign_in error", reason>>, "pending", <<Msg("sign_in", req.arg)>>, <<>>, <<>>)

SignInError ==
  \E req \in BagToSet(pending) : \E reason \in {"invalid_token", "join_denied"} :
    /\ req.name = "sign_in"
    /\ Acked(req)
    /\ UNCHANGED <<signedIn, permissions, timers>>
    /\ Quiet(<<"sign_in error", reason>>,
             IF reason = "invalid_token" THEN "resolved" ELSE "rejected")

SignOut == PushRequest("signOut", NoValue, "sign_out", "call")

\* _signedIn is left as it was
SignOutOkKeepsSignedIn ==
  \E req \in BagToSet(pending) :
    /\ req.name = "sign_out"
    /\ Acked(req)
    /\ permissions' = EmptyPermissions
    /\ UNCHANGED <<signedIn, timers>>
    /\ Out(<<"sign_out ok", NoValue>>, "resolved", <<>>, <<"permissions_updated">>, <<>>)

\* the refresh timers are cleared
SignOutOkCancelsTimers ==
  \E req \in BagToSet(pending) :
    /\ req.name = "sign_out"
    /\ Acked(req)
    /\ permissions' = EmptyPermissions
    /\ signedIn' = FALSE
    /\ timers' = EmptyBag
    /\ Out(<<"sign_out ok", NoValue>>, "resolved", <<>>, <<"permissions_updated">>, <<>>)

SignOutOk ==
  \E req \in BagToSet(pending) :
    /\ req.name = "sign_out"
    /\ Acked(req)
    /\ permissions' = EmptyPermissions
    /\ signedIn' = FALSE
    /\ UNCHANGED timers
    /\ Out(<<"sign_out ok", NoValue>>, "resolved", <<>>, <<"permissions_updated">>, <<>>)

SignOutError ==
  \E req \in BagToSet(pending) :
    /\ req.name = "sign_out"
    /\ Acked(req)
    /\ UNCHANGED <<signedIn, permissions, timers>>
    /\ Quiet(<<"sign_out error", NoValue>>, "rejected")

GetHost == PushRequest("getHost", NoValue, "get_host", "call")

Pin == PushRequest("pin", NoValue, "pin", "call")

\* get_host and pin: "ok" resolves and "error" rejects
PlainAck ==
  \E req \in BagToSet(pending) : \E reply \in {"ok", "error"} :
    /\ req.name \in {"get_host", "pin"}
    /\ Acked(req)
    /\ UNCHANGED <<signedIn, permissions, timers>>
    /\ Quiet(<<req.name \o " " \o reply, NoValue>>,
             IF reply = "ok" THEN "resolved" ELSE "rejected")

\* unsubscribe has an "ok" hook only
UnsubscribeAck ==
  \E req \in BagToSet(pending) : \E reply \in {"ok", "error"} :
    /\ req.name = "unsubscribe"
    /\ Acked(req)
    /\ UNCHANGED <<signedIn, permissions, timers>>
    /\ Quiet(<<"unsubscribe " \o reply, NoValue>>,
             IF reply = "ok" THEN "resolved" ELSE "pending")

Unpin == PushOnly("unpin", NoValue, "unpin")

FetchPermissions == PushRequest("fetchPermissions", NoValue, "refresh_perms_token", "call")

\* the "ok" hook of fetchPermissions, then what its caller does with the
\* resolved promise: nothing (a direct call), the permissions-refreshed
\* event (the timer), or the adapter's kick and the kick message (kick)
RefreshOk ==
  \E req \in BagToSet(pending) : \E token \in Tokens :
    /\ req.name = "refresh_perms_token"
    /\ Acked(req)
    /\ UNCHANGED signedIn
    /\ SetPermissionsFromToken(token,
         IF req.origin = "timer" THEN <<"permissions-refreshed">> ELSE <<>>)
    /\ IF req.origin = "kick"
         THEN Out4(<<"refresh_perms_token ok", token>>, "resolved",
                   <<Msg("kick", req.arg)>>, <<<<"kick", req.arg>>>>)
         ELSE Out4(<<"refresh_perms_token ok", token>>, "resolved", <<>>, <<>>)
    /\ trace' = <<Effect("event", "permissions_updated", permissions', signedIn'),
                  Effect("settle", "resolved", permissions', signedIn')>>
                 \o (CASE req.origin = "timer" ->
                            <<Effect("event", "permissions-refreshed", permissions', signedIn')>>
                        [] req.origin = "kick" ->
                            <<Effect("naf", "kick", permissions', signedIn'),
                              Effect("push", "kick", permissions', signedIn')>>
                        [] OTHER -> <<>>)

\* an error acknowledgment after which the timer's callback sets its timer again
RefreshErrorReschedules ==
  \E req \in BagToSet(pending) :
    /\ req.name = "refresh_perms_token"
    /\ Acked(req)
    /\ UNCHANGED <<signedIn, permissions>>
    /\ timers' = IF req.origin = "timer"
                   THEN timers (+) SetToBag({SetTimeout(Norm(0, 60 * 1000), now, 0)})
                   ELSE timers
    /\ Quiet(<<"refresh_perms_token error", req.origin>>, "rejected")

RefreshError ==
  \E req \in BagToSet(pending) :
    /\ req.name = "refresh_perms_token"
    /\ Acked(req)
    /\ UNCHANGED <<signedIn, permissions, timers>>
    /\ Quiet(<<"refresh_perms_token error", req.origin>>, "rejected")

Mute == \E sessionId \in Sessions : PushOnly("mute", sessionId, "mute")

Hide ==
  \E sessionId \in Sessions :
    /\ blockedSessionIds' = blockedSessionIds \cup {sessionId}
    /\ UNCHANGED <<store, channel, signedIn, permissions, pending, timers, now>>
    /\ Out(<<"hide", sessionId>>, NoValue, <<>>, <<>>, <<<<"block", sessionId>>>>)

\* no membership test
UnhideUnguarded ==
  \E sessionId \in Sessions :
    /\ UNCHANGED <<store, channel, signedIn, permissions, pending, timers, now>>
    /\ blockedSessionIds' = blockedSessionIds \ {sessionId}
    /\ Out(<<"unhide", sessionId>>, NoValue, <<>>, <<>>,
           <<<<"unblock", sessionId>>, <<"completeSync", sessionId>>>>)

Unhide ==
  \E sessionId \in Sessions :
    /\ UNCHANGED <<store, channel, signedIn, permissions, pending, timers, now>>
    /\ IF ~IsHidden(sessionId)
         THEN /\ blockedSessionIds' = blockedSessionIds
              /\ Quiet(<<"unhide", sessionId>>, NoValue)
         ELSE /\ blockedSessionIds' = blockedSessionIds \ {sessionId}
              /\ Out(<<"unhide", sessionId>>, NoValue, <<>>, <<>>,
                     <<<<"unblock", sessionId>>, <<"completeSync", sessionId>>>>)

\* a kick that does not wait for the refreshed token
KickWithoutWaiting ==
  \E sessionId \in Sessions :
    /\ InFlight < MaxInFlight
    /\ UNCHANGED <<store, channel, signedIn, permissions, blockedSessionIds, timers, now>>
    /\ IF channel = "none"
         THEN pending' = pending /\ Quiet(<<"kick", sessionId>>, "rejected")
         ELSE /\ pending' = pending (+) SetToBag({Request("refresh_perms_token", "call", NoValue)})
              /\ Out(<<"kick", sessionId>>, "promise",
                     <<Msg("refresh_perms_token", sessionId), Msg("kick", sessionId)>>,
                     <<>>, <<>>)

Kick == \E sessionId \in Sessions : PushRequest("kick", sessionId, "refresh_perms_token", "kick")

RequestSupport == PushOnly("requestSupport", NoValue, "events:request_support")

Favorite == PushOnly("favorite", NoValue, "favorite")

Unfavorite == PushOnly("unfavorite", NoValue, "unfavorite")

\* a disconnect that drops the requests in flight
DisconnectDropsPending ==
  /\ UNCHANGED <<store, channel, signedIn, permissions, blockedSessionIds, timers, now>>
  /\ pending' = EmptyBag
  /\ Quiet(<<"disconnect", NoValue>>, NoValue)

Disconnect ==
  /\ UNCHANGED core
  /\ Quiet(<<"disconnect", NoValue>>, NoValue)

\* time passes
Tick ==
  /\ Less(now, LastNow)
  /\ now' = AddMs(now, TickMs)
  /\ UNCHANGED <<store, channel, signedIn, permissions, blockedSessionIds, pending, timers>>
  /\ Quiet(<<"tick", NoValue>>, NoValue)

Next ==
  \/ SetPhoenixChannel
  \/ MigrateToSocket
  \/ TimerFires
  \/ SendEntryEvent
  \/ GetEntryTimingFlags
  \/ SendObjectSpawnedEvent
  \/ SendProfileUpdate
  \/ UpdateScene
  \/ Rename
  \/ CloseHub
  \/ Subscribe
  \/ AllowNAFTraffic
  \/ Unsubscribe
  \/ SendMessage
  \/ SignIn
  \/ SignInOk
  \/ SignInError
  \/ SignOut
  \/ SignOutOk
  \/ SignOutError
  \/ GetHost
  \/ Pin
  \/ PlainAck
  \/ UnsubscribeAck
  \/ Unpin
  \/ FetchPermissions
  \/ RefreshOk
  \/ RefreshError
  \/ Mute
  \/ Kick
  \/ RequestSupport
  \/ Favorite
  \/ Unfavorite
  \/ Disconnect
  \/ Tick

Spec == Init /\ [][Next]_vars

(***************************************************************************)
(* The moderation handlers.  blockedSessionIds is read and written by      *)
(* hide, unhide and isHidden only, and these read nothing else of the      *)
(* object, so they are checked together with mute and kick (and what a     *)
(* kick sets off) in a specification of their own.                         *)
(***************************************************************************)
NextModeration ==
  \/ SetPhoenixChannel
  \/ Mute
  \/ Hide
  \/ Unhide
  \/ Kick
  \/ RefreshOk
  \/ RefreshError
  \/ TimerFires
  \/ Tick

SpecModeration == Init /\ [][NextModeration]_vars

(***************************************************************************)
(* The handlers that read or write the permission set, signedIn and the    *)
(* timers, from stores with no creator-assignment token, with one for      *)
(* another hub only, and with one for this hub.                            *)
(***************************************************************************)
PermissionStores ==
  { [credentialsToken |-> NoValue, lastEnteredAt |-> <<>>, creatorAssignmentTokens |-> <<>>],
    [credentialsToken |-> "cred", lastEnteredAt |-> <<>>,
     creatorAssignmentTokens |-> <<[hubId |-> "hub2", creatorAssignmentToken |-> "cat2"]>>],
    [credentialsToken |-> NoValue, lastEnteredAt |-> <<>>,
     creatorAssignmentTokens |-> <<[hubId |-> "hub2", creatorAssignmentToken |-> "cat2"],
                                   [hubId |-> "hub1", creatorAssignmentToken |-> "cat1"]>>] }

InitPermissions ==
  /\ store \in PermissionStores
  /\ channel = "none"
  /\ signedIn = (store.credentialsToken # NoValue)
  /\ permissions = EmptyPermissions
  /\ blockedSessionIds = {}
  /\ pending = EmptyBag
  /\ timers = EmptyBag
  /\ now = StartNow
  /\ op = <<"constructor", NoValue>>
  /\ ret = NoValue
  /\ pushed = <<>>
  /\ events = <<>>
  /\ naf = <<>>
  /\ trace = <<>>

NextPermissions ==
  \/ SetPhoenixChannel
  \/ SignIn
  \/ SignInOk
  \/ SignInError
  \/ SignOut
  \/ SignOutOk
  \/ SignOutError
  \/ FetchPermissions
  \/ Kick
  \/ RefreshOk
  \/ RefreshError
  \/ TimerFires
  \/ Tick

SpecPermissions == InitPermissions /\ [][NextPermissions]_vars

(***************************************************************************)
(* The entry timing flags are a function of the clock and of the stored    *)
(* last entry time: this specification constructs the client at times and  *)
(* with stores around the ends of days, months and years (a leap day, and  *)
(* times one and thirty days apart to the millisecond) and enters.         *)
(***************************************************************************)
\* days since the epoch with their dates (month from 0, as getMonth)
KnownDates ==
  { [day |-> 19781, year |-> 2024, month |-> 1, date |-> 28],
    [day |-> 19782, year |-> 2024, month |-> 1, date |-> 29],
    [day |-> 19783, year |-> 2024, month |-> 2, date |-> 1],
    [day |-> 19811, year |-> 2024, month |-> 2, date |-> 29],
    [day |-> 19812, year |-> 2024, month |-> 2, date |-> 30],
    [day |-> 20088, year |-> 2024, month |-> 11, date |-> 31],
    [day |-> 20089, year |-> 2025, month |-> 0, date |-> 1],
    [day |-> 20118, year |-> 2025, month |-> 0, date |-> 30],
    [day |-> 20119, year |-> 2025, month |-> 0, date |-> 31],
    [day |-> 20453, year |-> 2025, month |-> 11, date |-> 31] }

EntryTimes == { [day |-> k.day, ms |-> m] : k \in KnownDates, m \in {0, 1, MS_PER_DAY - 1} }

EntryStores ==
  { [credentialsToken |-> NoValue, lastEnteredAt |-> last,
     creatorAssignmentTokens |-> <<>>] : last \in {<<>>} \cup { <<t>> : t \in EntryTimes } }

InitEntry ==
  /\ store \in EntryStores
  /\ channel = "none"
  /\ signedIn = (store.credentialsToken # NoValue)
  /\ permissions = EmptyPermissions
  /\ blockedSessionIds = {}
  /\ pending = EmptyBag
  /\ timers = EmptyBag
  /\ now \in EntryTimes
  /\ op = <<"constructor", NoValue>>
  /\ ret = NoValue
  /\ pushed = <<>>
  /\ events = <<>>
  /\ naf = <<>>
  /\ trace = <<>>

NextEntry ==
  \/ SetPhoenixChannel
  \/ GetEntryTimingFlags
  \/ SendEntryEvent

SpecEntry == InitEntry /\ [][NextEntry]_vars

(***************************************************************************)
(* Properties.                                                             *)
(***************************************************************************)
\* the cached flag, read from the permission set itself
Flag(name) == name \in DOMAIN permissions /\ permissions[name] = TRUE

CountOf(seq, x) == Cardinality({i \in 1..Len(seq) : seq[i] = x})

PushedNames == [i \in 1..Len(pushed) |-> pushed[i][1]]

\* C1: rename and updateScene (gated by update_hub) and closeHub (gated by
\* close_hub) return "unauthorized" and push nothing when the cached flag is
\* absent or false; when it is true they push exactly their one message
\* (update_hub, update_scene, close_hub) and do not return "unauthorized".
C1_GatedActions ==
  /\ op[1] = "rename" =>
       IF Flag("update_hub")
         THEN ret # "unauthorized" /\ PushedNames = <<"update_hub">>
         ELSE ret = "unauthorized" /\ pushed = <<>>
  /\ op[1] = "updateScene" =>
       IF Flag("update_hub")
         THEN ret # "unauthorized" /\ PushedNames = <<"update_scene">>
         ELSE ret = "unauthorized" /\ pushed = <<>>
  /\ op[1] = "closeHub" =>
       IF Flag("close_hub")
         THEN ret # "unauthorized" /\ PushedNames = <<"close_hub">>
         ELSE ret = "unauthorized" /\ pushed = <<>>

\* closeHub refused although update_hub is granted: close_hub is there and false
C1_Witness ==
  /\ op[1] = "closeHub"
  /\ ret = "unauthorized"
  /\ Flag("update_hub")
  /\ "close_hub" \in DOMAIN permissions

\* C2: after the "ok" acknowledgment of sign_in the promise is resolved,
\* signedIn is true and the permission set is exactly the decoded token:
\* nothing of the set held before is kept.
C2_SignInOk ==
  op[1] = "sign_in ok" =>
    /\ ret = "resolved"
    /\ signedIn
    /\ permissions = JwtDecode(op[2])

\* a second token accepted (two timers), with fewer keys than the other tokens
C2_Witness ==
  /\ op[1] = "sign_in ok"
  /\ op[2].grant = "member"
  /\ BagCardinality(timers) = 2
  /\ DOMAIN permissions = {"exp"}

\* C3 (as claimed): after the "error" acknowledgment of sign_in with reason
\* invalid_token the promise is resolved and signedIn is false, whatever the
\* state before.
C3_InvalidTokenNotSignedIn ==
  (op[1] = "sign_in error" /\ op[2] = "invalid_token") =>
    (ret = "resolved" /\ ~signedIn)

\* C4 (as claimed): an "error" acknowledgment of sign_in (reason other than
\* invalid_token), sign_out, get_host, pin, refresh_perms_token or unsubscribe
\* rejects the promise of the call.
C4_ErrorRejects ==
  /\ (op[1] = "sign_in error" /\ op[2] # "invalid_token") => ret = "rejected"
  /\ op[1] \in {"sign_out error", "get_host error", "pin error",
                 "refresh_perms_token error", "unsubscribe error"} => ret = "rejected"

\* C5: the "ok" acknowledgment of sign_out empties the permission set, sets
\* signedIn false and resolves the promise; the "error" acknowledgment leaves
\* the permission set and signedIn as they were, rejects the promise and
\* dispatches no event.
C5_SignOut ==
  [][ /\ op'[1] = "sign_out ok" =>
           (permissions' = EmptyPermissions /\ ~signedIn' /\ ret' = "resolved")
      /\ op'[1] = "sign_out error" =>
           (permissions' = permissions /\ signedIn' = signedIn /\ events' = <<>>
              /\ ret' = "rejected") ]_vars

\* a refused sign-out of a signed-in client that holds permissions
C5_Witness ==
  /\ op[1] = "sign_out error"
  /\ signedIn
  /\ permissions # EmptyPermissions

\* C6: sign-out cancels no refresh timer: the "ok" acknowledgment of sign_out
\* leaves the timers as they are, a timer that expires pushes
\* refresh_perms_token whatever signedIn is, and the "ok" reply to a refresh
\* replaces the permission set by the decoded token and leaves signedIn alone.
C6_TimerSurvivesSignOut ==
  [][ /\ op'[1] = "sign_out ok" => timers' = timers
      /\ op'[1] = "timer" =>
           (PushedNames' = <<"refresh_perms_token">> /\ signedIn' = signedIn)
      /\ op'[1] = "refresh_perms_token ok" =>
           (permissions' = JwtDecode(op'[2]) /\ signedIn' = signedIn) ]_vars

\* a timer expires and pushes the refresh while the permission set is empty and
\* the client signed out: the timer was set with a token, which made the set
\* non-empty, so a sign-out was acknowledged since and did not cancel it
C6_Witness ==
  /\ op[1] = "timer"
  /\ PushedNames = <<"refresh_perms_token">>
  /\ permissions = EmptyPermissions
  /\ ~signedIn
  /\ store.credentialsToken # NoValue

\* where the reply to that refresh leads: signed out, with permissions
C6_SignedOutWithPermissions ==
  /\ store.credentialsToken # NoValue
  /\ ~signedIn
  /\ permissions # EmptyPermissions
  /\ op[1] = "refresh_perms_token ok"
  /\ events = <<"permissions_updated", "permissions-refreshed">>

\* C7: the steps that set the permission set (the "ok" acknowledgments of
\* sign_in, refresh_perms_token and sign_out) dispatch permissions_updated
\* exactly once, and every other step dispatches none and leaves the
\* permission set as it is.
C7_PermissionsUpdated ==
  [][ IF op'[1] \in {"sign_in ok", "refresh_perms_token ok", "sign_out ok"}
        THEN CountOf(events', "permissions_updated") = 1
        ELSE CountOf(events', "permissions_updated") = 0 /\ permissions' = permissions ]_vars

\* the refresh a kick asked for: one event, then the kick
C7_Witness ==
  /\ op[1] = "refresh_perms_token ok"
  /\ events = <<"permissions_updated">>
  /\ PushedNames = <<"kick">>

\* C8: a timer set for a token of expiry exp has delay exp * 1000 - 60000 -
\* (the time it was set); its refresh is pushed no earlier than a minute
\* before the expiry; a delay of zero or less lets it run at once.
C8_RefreshDelay ==
  /\ \A timer \in BagToSet(timers) :
       /\ Plus(timer.setAt, timer.delay) = AddMs(SecondsToMs(timer.exp), -60000)
       /\ ~Less(Zero, timer.delay) => LessEq(Due(timer), timer.setAt)
       /\ LessEq(timer.setAt, now)
  /\ op[1] \in {"sign_in ok", "refresh_perms_token ok"} =>
       \E timer \in BagToSet(timers) : timer.setAt = now /\ timer.exp = permissions.exp
  /\ op[1] = "timer" => LessEq(AddMs(SecondsToMs(op[2].exp), -60000), now)

\* a timer set with a positive delay has run
C8_Witness ==
  /\ op[1] = "timer"
  /\ Less(Zero, op[2].delay)

\* C9: hide(s) calls the adapter's block for s and leaves s hidden; unhide(s)
\* of a session that is not hidden changes nothing and calls nothing;
\* unhide(s) of a hidden session calls unblock and completeSync for s and
\* removes s, and only s, from the set.
C9_HideUnhide ==
  [][ /\ op'[1] = "hide" =>
           /\ blockedSessionIds' = blockedSessionIds \cup {op'[2]}
           /\ op'[2] \in blockedSessionIds'
           /\ naf' = <<<<"block", op'[2]>>>>
      /\ (op'[1] = "unhide" /\ op'[2] \notin blockedSessionIds) =>
           (blockedSessionIds' = blockedSessionIds /\ naf' = <<>>)
      /\ (op'[1] = "unhide" /\ op'[2] \in blockedSessionIds) =>
           /\ blockedSessionIds' = blockedSessionIds \ {op'[2]}
           /\ naf' = <<<<"unblock", op'[2]>>, <<"completeSync", op'[2]>>>> ]_vars

\* a session unhidden while another stays hidden
C9_Witness ==
  /\ op[1] = "unhide"
  /\ naf # <<>>
  /\ blockedSessionIds # {}

\* the date of a day, from the table
DateOf(t) == CHOOSE k \in KnownDates : k.day = t.day

\* C10: isNewDaily is false exactly when the stored last entry time has the
\* year, month and day of the month of the current time, isNewMonthly is
\* false exactly when it has its year and month, both are true when nothing
\* is stored, and isNewMonthly implies isNewDaily.
C10_CalendarFlags ==
  op[1] = "getEntryTimingFlags" =>
    LET flags == op[2]
        last == store.lastEnteredAt
    IN  /\ flags.isNewMonthly => flags.isNewDaily
        /\ IF last = <<>>
             THEN flags.isNewDaily /\ flags.isNewMonthly
             ELSE LET a == DateOf(now)
                      b == DateOf(last[1])
                  IN  /\ ~flags.isNewDaily <=>
                           (a.year = b.year /\ a.month = b.month /\ a.date = b.date)
                      /\ ~flags.isNewMonthly <=> (a.year = b.year /\ a.month = b.month)

\* the same day of the same month of another year
C10_Witness ==
  /\ op[1] = "getEntryTimingFlags"
  /\ store.lastEnteredAt # <<>>
  /\ DateOf(now).date = DateOf(store.lastEnteredAt[1]).date
  /\ DateOf(now).month = DateOf(store.lastEnteredAt[1]).month
  /\ DateOf(now).year # DateOf(store.lastEnteredAt[1]).year
  /\ op[2].isNewDaily

\* the two acknowledgment steps of a request
AckSteps(name) == {name \o " ok", name \o " error"}

\* the step is the acknowledgment of the pending request req, and takes this
\* one request and no other from the pending ones
AckOf(req) ==
  /\ op'[1] \in AckSteps(req.name)
  /\ pending = pending' (+) SetToBag({req})

\* C11: the promise of a pushed request stays pending until a step that is
\* the acknowledgment of this request: a request leaves the pending ones only
\* in the "ok" or "error" step of its own name, which takes exactly this one
\* request, so that no later acknowledgment finds it again; and a promise is
\* settled only in such a step (or at once, by a call made without a channel,
\* which pushes no request).  Time passing, a disconnect and the sign-out of
\* another request leave every pending request pending.
C11_PendingUntilAcked ==
  [][ /\ \A req \in BagToSet(pending) :
           CopiesIn(req, pending') < CopiesIn(req, pending) => AckOf(req)
      /\ ret' \in {"resolved", "rejected"} =>
           \/ \E req \in BagToSet(pending) : AckOf(req)
           \/ channel = "none" /\ pending' = pending /\ pushed' = <<>>
      /\ op'[1] \in {"tick", "disconnect", "timer"} =>
           \A req \in BagToSet(pending) : CopiesIn(req, pending') >= CopiesIn(req, pending) ]_vars

\* a disconnect while getHost's promise is pending, which stays pending
C11_Witness ==
  /\ op[1] = "disconnect"
  /\ \E req \in BagToSet(pending) : req.name = "get_host"

\* the calls that return a promise, and the request each one pushes
RequestOf ==
  [signIn |-> "sign_in", signOut |-> "sign_out", getHost |-> "get_host", pin |-> "pin",
   unsubscribe |-> "unsubscribe", fetchPermissions |-> "refresh_perms_token"]

\* C12: no request is pushed again: each call of signIn, signOut, getHost, pin,
\* unsubscribe or fetchPermissions on a channel pushes its request exactly once
\* and nothing else; an "error" acknowledgment pushes nothing, sets no timer
\* and puts no request among the pending ones; and time passing with a request
\* unacknowledged pushes nothing.
C12_NoRetry ==
  [][ /\ (op'[1] \in DOMAIN RequestOf /\ channel # "none") =>
           /\ PushedNames' = <<RequestOf[op'[1]]>>
           /\ BagCardinality(pending') = BagCardinality(pending) + 1
      /\ (\E name \in {RequestOf[c] : c \in DOMAIN RequestOf} : op'[1] = name \o " error") =>
           /\ pushed' = <<>>
           /\ timers' = timers
           /\ BagCardinality(pending') = BagCardinality(pending) - 1
      /\ op'[1] = "tick" => pushed' = <<>> /\ pending' = pending ]_vars

\* a sign-in refused for another reason than an invalid token: the promise is
\* rejected and nothing is pushed
C12_Witness ==
  /\ op = <<"sign_in error", "join_denied">>
  /\ ret = "rejected"
  /\ pushed = <<>>
  /\ pending = EmptyBag

\* C13: canOrWillIfCreator(p) is true when the store holds a
\* creator-assignment token of this hub and p is one of update_hub, close_hub,
\* mute_users and kick_users, whatever the permission set and signedIn are; in
\* every other case (no token, a token of another hub only, or another p) it
\* is can(p).
C13_CanOrWillIfCreator ==
  LET tokens == store.creatorAssignmentTokens
      stored == \E i \in 1..Len(tokens) : tokens[i].hubId = HubId
  IN  \A p \in {"update_hub", "close_hub", "mute_users", "kick_users", "pin_objects"} :
        IF stored /\ p \in {"update_hub", "close_hub", "mute_users", "kick_users"}
          THEN CanOrWillIfCreator(p)
          ELSE CanOrWillIfCreator(p) = Can(p)

\* signed out, with an empty permission set and a token of this hub stored
\* behind one of another hub: true for close_hub, which can() denies
C13_Witness ==
  /\ op[1] = "sign_out ok"
  /\ ~signedIn
  /\ permissions = EmptyPermissions
  /\ \E i \in 1..Len(store.creatorAssignmentTokens) : store.creatorAssignmentTokens[i].hubId = HubId
  /\ CanOrWillIfCreator("close_hub")
  /\ ~Can("close_hub")
  /\ ~CanOrWillIfCreator("pin_objects")

\* the kinds and names of the effects of the last step, in their order
TraceNames == [i \in 1..Len(trace) |-> <<trace[i].kind, trace[i].name>>]

\* C14: kick(s) pushes refresh_perms_token and nothing else, and calls nothing
\* on NAF.connection; the adapter's kick and the push of kick happen only in
\* the "ok" acknowledgment of the refresh of a kick, for its session: the
\* permission set is replaced by the token's, then the adapter's kick is
\* called and then kick is pushed.  The "error" acknowledgment, and every
\* other step, does neither.
C14_KickAfterRefresh ==
  [][ /\ (op'[1] = "kick" /\ channel # "none") =>
           /\ PushedNames' = <<"refresh_perms_token">>
           /\ naf' = <<>>
           /\ pending' = pending (+) SetToBag({Request("refresh_perms_token", "kick", op'[2])})
      /\ (\E req \in BagToSet(pending) :
            /\ req.origin = "kick"
            /\ op'[1] = "refresh_perms_token ok"
            /\ pending = pending' (+) SetToBag({req})) =>
           \E s \in Sessions :
             /\ Request("refresh_perms_token", "kick", s) \in BagToSet(pending)
             /\ pending = pending' (+) SetToBag({Request("refresh_perms_token", "kick", s)})
             /\ permissions' = JwtDecode(op'[2])
             /\ naf' = <<<<"kick", s>>>>
             /\ pushed' = <<Msg("kick", s)>>
             /\ TraceNames' = << <<"event", "permissions_updated">>, <<"settle", "resolved">>,
                                 <<"naf", "kick">>, <<"push", "kick">> >>
             /\ \A i \in 1..4 : trace'[i].permissions = JwtDecode(op'[2])
      /\ ((\E i \in 1..Len(naf') : naf'[i][1] = "kick") \/ (\E i \in 1..Len(pushed') : pushed'[i][1] = "kick")) =>
           /\ op'[1] = "refresh_perms_token ok"
           /\ \E req \in BagToSet(pending) :
                req.origin = "kick" /\ pending = pending' (+) SetToBag({req})
      /\ op'[1] = "refresh_perms_token error" => naf' = <<>> /\ pushed' = <<>> ]_vars

\* the refresh of kick(s2) is acknowledged with the owner's token: the
\* adapter's kick and then the push of kick, for s2
C14_Witness ==
  /\ op[1] = "refresh_perms_token ok"
  /\ naf = <<<<"kick", "s2">>>>
  /\ PushedNames = <<"kick">>
  /\ pushed[1][2] = "s2"
  /\ TraceNames[3] = <<"naf", "kick">>
  /\ TraceNames[4] = <<"push", "kick">>

\* the request a refresh timer's callback pushes
TimerRequest == Request("refresh_perms_token", "timer", NoValue)

\* C15: when the refresh pushed by a timer is acknowledged with "error", the
\* permission set stays as it is, no event is dispatched and no timer is set;
\* when it is acknowledged with "ok", the permission set is the token's,
\* permissions_updated and then permissions-refreshed are dispatched and one
\* timer is set.  A timer is set only in the "ok" step of a sign-in or of a
\* refresh, and a timer's request is pushed only by a timer, which is then no
\* longer pending: after the error the refreshes stop until a token is
\* accepted again.
C15_TimerRefresh ==
  [][ /\ (TimerRequest \in BagToSet(pending) /\ pending = pending' (+) SetToBag({TimerRequest})) =>
           CASE op'[1] = "refresh_perms_token error" ->
                  /\ permissions' = permissions
                  /\ events' = <<>>
                  /\ timers' = timers
                  /\ pushed' = <<>>
             [] op'[1] = "refresh_perms_token ok" ->
                  /\ permissions' = JwtDecode(op'[2])
                  /\ events' = <<"permissions_updated", "permissions-refreshed">>
                  /\ BagCardinality(timers') = BagCardinality(timers) + 1
                  /\ \A timer \in BagToSet(timers) : CopiesIn(timer, timers') >= CopiesIn(timer, timers)
             [] OTHER -> FALSE
      /\ BagCardinality(timers') > BagCardinality(timers) =>
           op'[1] \in {"sign_in ok", "refresh_perms_token ok"}
      /\ CopiesIn(TimerRequest, pending') > CopiesIn(TimerRequest, pending) =>
           /\ op'[1] = "timer"
           /\ BagCardinality(timers') = BagCardinality(timers) - 1 ]_vars

\* the refresh of the only timer is acknowledged with "error": the permission
\* set of the earlier token is kept, and no timer and no request is left
C15_Witness ==
  /\ op = <<"refresh_perms_token error", "timer">>
  /\ permissions # EmptyPermissions
  /\ events = <<>>
  /\ timers = EmptyBag
  /\ pending = EmptyBag

\* C16: every accepted token (the "ok" step of a sign-in or of a refresh) adds
\* exactly one timer to the pending ones, only the run of a timer's callback
\* takes one (its own) from them, and every other step, sign-out included,
\* leaves them as they are: the pending timers are the tokens accepted less
\* the timers run, and there can be more than one.
C16_TimerCount ==
  [][ CASE op'[1] \in {"sign_in ok", "refresh_perms_token ok"} ->
             \E timer \in BagToSet(timers') :
               /\ timers' = timers (+) SetToBag({timer})
               /\ timer.exp = JwtDecode(op'[2]).exp
        [] op'[1] = "timer" ->
             /\ op'[2] \in BagToSet(timers)
             /\ timers = timers' (+) SetToBag({op'[2]})
        [] OTHER -> timers' = timers ]_vars

\* signed in, then a fetchPermissions acknowledged before the first timer has
\* run: two timers are pending
C16_Witness ==
  /\ op[1] = "refresh_perms_token ok"
  /\ events = <<"permissions_updated">>
  /\ signedIn
  /\ BagCardinality(timers) = 2

\* C17: in the "ok" step of a sign-in the permission set is replaced, then
\* permissions_updated is dispatched, then signedIn is set and then the
\* promise is resolved: the listeners of permissions_updated run with the
\* permission set of the token and with signedIn as it was before the step,
\* and the promise is resolved with signedIn true.
C17_SignInOrder ==
  [][ op'[1] = "sign_in ok" =>
        /\ permissions' = JwtDecode(op'[2])
        /\ signedIn'
        /\ trace' = << Effect("event", "permissions_updated", JwtDecode(op'[2]), signedIn),
                       Effect("settle", "resolved", JwtDecode(op'[2]), TRUE) >> ]_vars

\* a first sign-in from a store without credentials: the listeners see the
\* owner's permissions and signedIn false
C17_Witness ==
  /\ op[1] = "sign_in ok"
  /\ store.credentialsToken = NoValue
  /\ signedIn
  /\ Flag("close_hub")
  /\ trace[1].name = "permissions_updated"
  /\ trace[1].permissions = permissions
  /\ ~trace[1].signedIn
  /\ trace[2].signedIn

\* the time t is more than n whole days (n * 86400000 ms) after the time s:
\* with both times as day and millisecond of the day, the days differ by more
\* than n, or by n with t later in its day
MoreThanDays(n, t, s) ==
  \/ t.day - s.day > n
  \/ t.day - s.day = n /\ t.ms > s.ms

\* C18: isNewDayWindow is true exactly when more than 86400000 ms have passed
\* since the stored last entry time, and isNewMonthWindow exactly when more
\* than 2592000000 ms (thirty times 86400000) have; at exactly 24 hours, and
\* at exactly thirty days, the flag is false.  isNewMonthWindow implies
\* isNewDayWindow, and with nothing stored all four flags are true.
C18_WindowFlags ==
  op[1] = "getEntryTimingFlags" =>
    LET flags == op[2]
        last == store.lastEnteredAt
    IN  /\ flags.isNewMonthWindow => flags.isNewDayWindow
        /\ IF last = <<>>
             THEN /\ flags.isNewDaily
                  /\ flags.isNewMonthly
                  /\ flags.isNewDayWindow
                  /\ flags.isNewMonthWindow
             ELSE /\ flags.isNewDayWindow <=> MoreThanDays(1, now, last[1])
                  /\ flags.isNewMonthWindow <=> MoreThanDays(30, now, last[1])

\* exactly 24 hours after the last entry, on another day of the calendar: not
\* a new day window
C18_Witness ==
  /\ op[1] = "getEntryTimingFlags"
  /\ store.lastEnteredAt # <<>>
  /\ now.day = store.lastEnteredAt[1].day + 1
  /\ now.ms = store.lastEnteredAt[1].ms
  /\ ~op[2].isNewDayWindow
  /\ op[2].isNewDaily

\* C19: the constructed client has an empty permission set and an empty
\* blocked set, and is signed in exactly when the store holds a credential
\* token; the permission set is written only by the "ok" steps of sign-in,
\* refresh and sign-out, and while it is the empty one rename, updateScene
\* and closeHub return "unauthorized" and push nothing, whatever signedIn and
\* canOrWillIfCreator say.
C19_Constructed ==
  /\ (/\ permissions = EmptyPermissions
      /\ blockedSessionIds = {}
      /\ signedIn <=> (store.credentialsToken # NoValue))
  /\ [][ /\ permissions' # permissions =>
              op'[1] \in {"sign_in ok", "refresh_perms_token ok", "sign_out ok"}
         /\ (op'[1] \in {"rename", "updateScene", "closeHub"} /\ permissions = EmptyPermissions) =>
              /\ ret' = "unauthorized"
              /\ pushed' = <<>>
              /\ pending' = pending ]_vars

\* rename on a channel, before any request was pushed: signed in by the
\* store's credential token and with a creator-assignment token of this hub,
\* and unauthorized
C19_Witness ==
  /\ op[1] = "rename"
  /\ ret = "unauthorized"
  /\ pushed = <<>>
  /\ channel # "none"
  /\ permissions = EmptyPermissions
  /\ timers = EmptyBag
  /\ pending = EmptyBag
  /\ signedIn
  /\ CanOrWillIfCreator("update_hub")
  /\ CanOrWillIfCreator("close_hub")

====
